---- MODULE Spec2Model ----
(***************************************************************************)
(* A model of the search service: the seven handlers of SearchController   *)
(* (best-results, all, movies, tv-series, persons, users, playlists), the   *)
(* engine (Typesense) and the store (Supabase) they call.                   *)
(*                                                                          *)
(* One request is followed from its arrival to its response.  The request,  *)
(* what the engine would answer and what the store holds are the inputs:    *)
(* each specification draws them from its own bounded sets in its Init.     *)
(* The handler is cut at its awaits: Start runs to the engine call,         *)
(* EngineResolve / EngineReject run from the engine's answer to the store   *)
(* lookups (or to the response), StoreReturn / StoreError run one lookup's  *)
(* continuation and, at the join of Promise.all, the rest of the handler.   *)
(***************************************************************************)
EXTENDS Integers, Sequences, FiniteSets, TLC

VARIABLES
    request,        \* the request being handled (query string fields, actor)
    engine,         \* collection -> the result the engine holds for its sub-query
    engineFails,    \* the collections whose sub-query fails
    store,          \* table -> the table's records, in the store's own order
    storeFails,     \* the tables whose lookup returns an error
    pc,             \* "received" | "engine" | "hydrating" | "done"
    sent,           \* the query specifications handed to the engine
    results,        \* the engine's results as the handler holds them
    ids,            \* type -> the ids of the type's hits, in rank order
    scored,         \* type -> the hybrid score of the type's rank-1 hit, if any
    bestResultMeta, \* the selected candidate [type, id, score], if any
    lookups,        \* lookup -> [status, table, keys]
    hydrated,       \* lookup -> the hydrator's output
    response,       \* what the caller receives
    log,            \* what request.log.error recorded
    clients         \* the store clients: per request its actor, its cached
                    \* client and the clients its accesses returned

vars == <<request, engine, engineFails, store, storeFails, pc, sent, results,
          ids, scored, bestResultMeta, lookups, hydrated, response, log,
          clients>>

env == <<request, engine, engineFails, store, storeFails, clients>>

(***************************************************************************)
(* JavaScript values.  A string is the sequence of its characters; the ids  *)
(* of the model are strings of decimal digits, a digit being its value.     *)
(***************************************************************************)
Num(n) == [t |-> "num", n |-> n, s |-> <<>>]
Str(s) == [t |-> "str", n |-> 0, s |-> s]
Undef == [t |-> "undefined", n |-> 0, s |-> <<>>]

\* An optional field is the set of its values: {} when absent, {v} when present.
Absent == {}
Some(v) == {v}
Get(o) == CHOOSE v \in o : TRUE

\* parseInt(s, 10) of a non-empty string of digits.
RECURSIVE ParseInt(_)
ParseInt(s) ==
    IF Len(s) = 1 THEN s[1]
    ELSE 10 * ParseInt(SubSeq(s, 1, Len(s) - 1)) + s[Len(s)]

\* String(n) of a natural number: its decimal digits, no leading zero.
RECURSIVE NumToString(_)
NumToString(n) ==
    IF n < 10 THEN <<n>> ELSE NumToString(n \div 10) \o <<n % 10>>

\* String(v)
JSString(v) == IF v.t = "num" THEN Str(NumToString(v.n)) ELSE v

\* Number(v) of a number or a string of digits
ToNumber(v) == IF v.t = "num" THEN v.n ELSE ParseInt(v.s)

\* a == b
LooseEq(a, b) ==
    IF a.t = b.t THEN a = b
    ELSE IF a.t = "undefined" \/ b.t = "undefined" THEN FALSE
    ELSE ToNumber(a) = ToNumber(b)

\* Math.floor for Math.ceil: a plausible slip.
Floor(a, b) == a \div b

\* Math.ceil(a / b) for a >= 0, b >= 1
Ceil(a, b) == (a + b - 1) \div b

(***************************************************************************)
(* The types, with the engine collection and the store table of each.       *)
(***************************************************************************)
TypeOrder == <<"movie", "tv_series", "person", "user", "playlist">>
Types == {TypeOrder[i] : i \in 1..Len(TypeOrder)}

CollectionOf(type) ==
    CASE type = "movie" -> "movies"
      [] type = "tv_series" -> "tv_series"
      [] type = "person" -> "persons"
      [] type = "user" -> "users"
      [] type = "playlist" -> "playlists"

Collections == {CollectionOf(t) : t \in Types}

getTableNameForType(type) ==
    CASE type = "movie" -> "media_movie"
      [] type = "tv_series" -> "media_tv_series"
      [] type = "person" -> "media_person"
      [] type = "user" -> "user"
      [] type = "playlist" -> "playlists"

Tables == {getTableNameForType(t) : t \in Types}

\* The single-collection operation of a type, and the two aggregate ones.
OpOf(type) ==
    CASE type = "movie" -> "movies"
      [] type = "tv_series" -> "tv-series"
      [] type = "person" -> "persons"
      [] type = "user" -> "users"
      [] type = "playlist" -> "playlists"

SingleOps == {OpOf(t) : t \in Types}
MultiOps == {"best-results", "all"}
TypeOfOp(op) == CHOOSE t \in Types : OpOf(t) = op

(***************************************************************************)
(* The store.  A record is its id and its table; the id column of the user  *)
(* table holds strings, the id column of every other table integers, and a  *)
(* key given as a string is read as a number by an integer column.          *)
(***************************************************************************)
Rec(table, id) == [id |-> id, tbl |-> table]
Undefined == [id |-> Undef, tbl |-> "undefined"]

KeyMatches(table, key, id) ==
    IF table = "user" THEN key = id ELSE ToNumber(key) = ToNumber(id)

\* supabaseClient.from(table).select(..).in('id', keys): {data, error}
StoreIn(table, keys) ==
    SelectSeq(store[table],
              LAMBDA r : \E i \in 1..Len(keys) : KeyMatches(table, keys[i], r.id))

(***************************************************************************)
(* The hydrators.                                                           *)
(***************************************************************************)
\* new Map(entries), entries an array of <<key, value>>: a later entry
\* replaces an earlier one with the same key.
NewMap(entries) ==
    [k \in {entries[i][1] : i \in 1..Len(entries)} |->
        entries[CHOOSE i \in 1..Len(entries) :
                   /\ entries[i][1] = k
                   /\ \A j \in (i + 1)..Len(entries) : entries[j][1] # k][2]]

\* dataMap.get(k)
MapGet(m, k) == IF k \in DOMAIN m THEN m[k] ELSE Undefined

\* .filter(Boolean) of an array of records and undefined
FilterBoolean(seq) == SelectSeq(seq, LAMBDA x : x # Undefined)

\* ids.map(id => parseInt(id, 10))
ParseIntIds(idList) == [i \in 1..Len(idList) |-> Num(ParseInt(idList[i].s))]

\* The hydrator with the store's own order kept: a plausible slip.
hydrateInStoreOrder(data, keys) ==
    SelectSeq(data, LAMBDA item :
                  \E i \in 1..Len(keys) : JSString(item.id) = JSString(keys[i]))

\* hydrateByIds from the store's data on, and the inline hydration of the
\* movie, tv-series, person and playlist searches: keyed by String(item.id).
hydrateByIds(data, keys) ==
    LET dataMap == NewMap([i \in 1..Len(data) |-> <<JSString(data[i].id), data[i]>>])
    IN  FilterBoolean([i \in 1..Len(keys) |-> MapGet(dataMap, keys[i])])

\* hydratePlaylists from the store's data on, and the inline hydration of the
\* user search: keyed by item.id.
hydratePlaylists(data, keys) ==
    LET dataMap == NewMap([i \in 1..Len(data) |-> <<data[i].id, data[i]>>])
    IN  FilterBoolean([i \in 1..Len(keys) |-> MapGet(dataMap, keys[i])])

(***************************************************************************)
(* The engine's data.  A hit is its document and its optional text_match;   *)
(* a result is its optional hit list and its match count.                   *)
(***************************************************************************)
Doc(id, popularity, followers_count, likes_count) ==
    [id |-> id, popularity |-> popularity,
     followers_count |-> followers_count, likes_count |-> likes_count]

Hit(doc, text_match) == [document |-> doc, text_match |-> text_match]

Result(hits, found) == [hits |-> hits, found |-> found]

\* x || 0 of an optional number: 0 when x is absent or 0
OrZero(x) == IF x = Absent THEN 0 ELSE Get(x)

\* a || b of optional numbers: b when a is absent or 0
OrElse(a, b) == IF a # Absent /\ Get(a) # 0 THEN a ELSE b

\* if (x) of an optional number: false when x is absent or 0
TruthyNum(x) == x # Absent /\ Get(x) # 0

\* if (x) of an optional string: false when x is absent or ""
TruthyStr(x) == x # Absent /\ Get(x).s # <<>>

\* if (x && x.length > 0) of an optional comma-separated string, held as the
\* list of its pieces (<<>> for the empty string)
TruthyList(x) == x # Absent /\ Len(Get(x)) > 0

(***************************************************************************)
(* The query specifications.  A filter expression is its terms and the      *)
(* operator that joins them; a sort expression is the sequence of its keys. *)
(***************************************************************************)
Term(field, op, args) == [field |-> field, op |-> op, args |-> args]
Joined(join, terms) == [join |-> join, terms |-> terms]

Bool(b) == [t |-> "bool", n |-> IF b THEN 1 ELSE 0, s |-> <<>>]

SortKey(field) == [field |-> field, dir |-> "desc"]
TextMatchKey == SortKey("_text_match(buckets: 10)")

\* The permission filter with the actor's clauses left out: a plausible slip.
PermissionFilterPublicOnly(userId) ==
    Joined("||", <<Term("is_private", ":", <<Bool(FALSE)>>)>>)

getPlaylistPermissionFilter(userId) ==
    IF TruthyStr(userId)
    THEN Joined("||", <<Term("is_private", ":", <<Bool(FALSE)>>),
                        Term("owner_id", ":=", <<Get(userId)>>),
                        Term("guest_ids", ":=", <<Get(userId)>>)>>)
    ELSE Joined("||", <<Term("is_private", ":", <<Bool(FALSE)>>)>>)

Query(collection, q, page, per_page, query_by, filter_by, sort_by) ==
    [collection |-> collection, q |-> q, page |-> page, per_page |-> per_page,
     query_by |-> query_by, filter_by |-> filter_by, sort_by |-> sort_by]

QueryByOf(collection) ==
    CASE collection = "movies" -> "original_title,titles"
      [] collection = "tv_series" -> "original_name,names"
      [] collection = "persons" -> "name,also_known_as"
      [] collection = "users" -> "username,full_name"
      [] collection = "playlists" -> "title,description"

\* popularity as the secondary sort field of every sub-query: a plausible slip.
BestSortFieldPopularity(collection) == "popularity"

\* The secondary sort field of each sub-query of the best-results batch.
BestSortFieldOf(collection) ==
    CASE collection = "users" -> "followers_count"
      [] collection = "playlists" -> "likes_count"
      [] OTHER -> "popularity"

\* searchBestResult's searches
BestResultSearches(req) ==
    [i \in 1..Len(TypeOrder) |->
        LET c == CollectionOf(TypeOrder[i])
        IN  Query(c, req.query, Absent, req.results_per_type, QueryByOf(c),
                  IF c = "playlists"
                  THEN Some(getPlaylistPermissionFilter(req.userId))
                  ELSE Absent,
                  Some(<<TextMatchKey, SortKey(BestSortFieldOf(c))>>))]

\* searchAll's resultsPerType
resultsPerType == 5

\* searchAll's searches
AllSearches(req) ==
    [i \in 1..Len(TypeOrder) |->
        LET c == CollectionOf(TypeOrder[i])
        IN  Query(c, req.query, Absent, resultsPerType, QueryByOf(c),
                  IF c = "playlists"
                  THEN Some(getPlaylistPermissionFilter(req.userId))
                  ELSE Absent,
                  Absent)]

\* The numeric filter dimensions of the movie and the tv-series search, in
\* the order their terms are pushed.
DimsOf(op) ==
    CASE op = "movies" -> <<"runtime", "release_date">>
      [] op = "tv-series" -> <<"number_of_seasons", "number_of_episodes",
                               "vote_average", "first_air_date">>
      [] OTHER -> <<>>

\* if (min && max) .. else if (min) .. else if (max) ..: what one dimension
\* pushes onto filters.
RangeTerms(field, min, max) ==
    IF TruthyNum(min) /\ TruthyNum(max)
    THEN <<Term(field, "[..]", <<Num(Get(min)), Num(Get(max))>>)>>
    ELSE IF TruthyNum(min) THEN <<Term(field, ">", <<Num(Get(min))>>)>>
    ELSE IF TruthyNum(max) THEN <<Term(field, "<", <<Num(Get(max))>>)>>
    ELSE <<>>

\* if (genre_ids && genre_ids.length > 0) ..: genre_ids is the list of the
\* pieces of the comma-separated string, <<>> for the empty string.
GenreTerms(genre_ids) ==
    IF TruthyList(genre_ids)
    THEN <<Term("genre_ids", "[,]", ParseIntIds(Get(genre_ids)))>>
    ELSE <<>>

RECURSIVE DimTerms(_, _, _)
DimTerms(dims, bounds, i) ==
    IF i > Len(dims) THEN <<>>
    ELSE RangeTerms(dims[i], bounds[dims[i]].min, bounds[dims[i]].max)
         \o DimTerms(dims, bounds, i + 1)

\* filters of searchMovies and searchTVSeries
Filters(req) ==
    GenreTerms(req.genre_ids) \o DimTerms(DimsOf(req.op), req.bounds, 1)

\* if (filters.length > 0) searchParameters.filter_by = filters.join(' && ')
FilterByOf(filters) ==
    IF Len(filters) > 0 THEN Some(Joined("&&", filters)) ELSE Absent

\* if (exclude_ids && exclude_ids.length > 0) ..: exclude_ids is the list of
\* the pieces of the comma-separated string.
ExclusionFilter(exclude_ids) ==
    IF TruthyList(exclude_ids)
    THEN Some(Joined("&&", [i \in 1..Len(Get(exclude_ids)) |->
                              Term("id", ":!=", <<Get(exclude_ids)[i]>>)]))
    ELSE Absent

\* searchParameters of the five single-collection handlers
SearchParameters(req) ==
    LET c == CollectionOf(TypeOfOp(req.op))
        sortOrder == SortKey(req.sort_by)
    IN  CASE req.op \in {"movies", "tv-series"} ->
               Query(c, req.query, Some(req.page), req.per_page, QueryByOf(c),
                     FilterByOf(Filters(req)), Some(<<TextMatchKey, sortOrder>>))
          [] req.op = "persons" ->
               Query(c, req.query, Some(req.page), req.per_page, QueryByOf(c),
                     Absent, Some(<<TextMatchKey, sortOrder>>))
          [] req.op = "users" ->
               Query(c, req.query, Some(req.page), req.per_page, QueryByOf(c),
                     ExclusionFilter(req.exclude_ids),
                     Some(<<TextMatchKey, SortKey("followers_count")>>))
          [] req.op = "playlists" ->
               Query(c, req.query, Some(req.page), req.per_page, QueryByOf(c),
                     Some(getPlaylistPermissionFilter(req.userId)),
                     Some(<<sortOrder>>))

\* What the handler hands to the engine.
Searches(req) ==
    CASE req.op = "best-results" -> BestResultSearches(req)
      [] req.op = "all" -> AllSearches(req)
      [] OTHER -> <<SearchParameters(req)>>

(***************************************************************************)
(* The selection of the best result (ScoreNormalizer / BestResultSelector). *)
(* A hybrid score is the exact fraction num / den.                          *)
(***************************************************************************)
IndexOfType(type) == CHOOSE i \in 1..Len(TypeOrder) : TypeOrder[i] = type

\* const [moviesResult, tvSeriesResult, ..] = results
ResultOfType(res, type) == res[IndexOfType(type)]

\* result.hits?.map(h => h.document.id) || []
IdsOf(result) ==
    IF result.hits = Absent THEN <<>>
    ELSE [i \in 1..Len(Get(result.hits)) |-> Get(result.hits)[i].document.id]

\* result.hits?.[0]
FirstHit(result) ==
    IF result.hits = Absent \/ Get(result.hits) = <<>> THEN Absent
    ELSE Some(Get(result.hits)[1])

potentialBest(res) ==
    [i \in 1..Len(TypeOrder) |->
        [type |-> TypeOrder[i], hit |-> FirstHit(res[i])]]

allHits(res) ==
    {Get(potentialBest(res)[i].hit) :
        i \in {j \in 1..Len(TypeOrder) : potentialBest(res)[j].hit # Absent}}

MaxOf(S) == CHOOSE m \in S : \A x \in S : x <= m

\* hit.text_match || 0
textScore(hit) == OrZero(hit.text_match)

\* doc.popularity || doc.followers_count || doc.likes_count || 0
popularityMetric(doc) ==
    OrZero(OrElse(OrElse(doc.popularity, doc.followers_count), doc.likes_count))

\* The greatest text score without the maximum over the hits: a plausible slip
\* (the scores are not normalised).
maxTextScoreFloorOnly(res) == MaxOf({1})

maxTextScore(res) == MaxOf({textScore(h) : h \in allHits(res)} \cup {1})

maxPopularity(res) ==
    MaxOf({popularityMetric(h.document) : h \in allHits(res)} \cup {1})

\* The score with the weights exchanged: a plausible slip.
hybridScoreSwapped(hit, maxText, maxPop) ==
    [num |-> 1 * textScore(hit) * maxPop + 9 * popularityMetric(hit.document) * maxText,
     den |-> 10 * maxText * maxPop]

\* normalizedText * 0.9 + normalizedPop * 0.1, as a fraction
hybridScore(hit, maxText, maxPop) ==
    [num |-> 9 * textScore(hit) * maxPop + 1 * popularityMetric(hit.document) * maxText,
     den |-> 10 * maxText * maxPop]

\* a > b of two fractions
Greater(a, b) == a.num * b.den > b.num * a.den

\* The replacement test with >= for >: a plausible slip (the last of the
\* equal candidates wins).
ReplacesOrEqual(best, score) ==
    best = Absent \/ ~Greater(Get(best).score, score)

\* The replacement test without its !bestResultMeta: a plausible slip (a
\* candidate of score 0 never replaces the initial null).
ReplacesIfPositive(best, score) ==
    score.num > 0 /\ (best = Absent \/ Greater(score, Get(best).score))

\* if (!bestResultMeta || hybridScore > bestResultMeta.score)
Replaces(best, score) ==
    best = Absent \/ Greater(score, Get(best).score)

\* hybridScore of every candidate that has a hit
Scored(res) ==
    [t \in Types |->
        LET candidate == potentialBest(res)[IndexOfType(t)]
        IN  IF candidate.hit = Absent THEN Absent
            ELSE Some(hybridScore(Get(candidate.hit), maxTextScore(res),
                                  maxPopularity(res)))]

\* for (const candidate of potentialBest) { .. }, from candidate i on
RECURSIVE BestFrom(_, _, _)
BestFrom(res, i, best) ==
    IF i > Len(TypeOrder) THEN best
    ELSE LET candidate == potentialBest(res)[i]
         IN  IF candidate.hit = Absent THEN BestFrom(res, i + 1, best)
             ELSE LET score == Get(Scored(res)[candidate.type])
                  IN  IF Replaces(best, score)
                      THEN BestFrom(res, i + 1,
                                    Some([type |-> candidate.type,
                                          id |-> Get(candidate.hit).document.id,
                                          score |-> score]))
                      ELSE BestFrom(res, i + 1, best)

SelectBest(res) == BestFrom(res, 1, Absent)

(***************************************************************************)
(* The store lookups of a request.  A lookup is idle (never issued),        *)
(* pending, ok or error; keys is what .in('id', ..) is given, by the list   *)
(* the records are put back in order by.                                    *)
(***************************************************************************)
LookupNames == Types \cup {"best"}

Lookup(status, table, keys, by, how) ==
    [status |-> status, table |-> table, keys |-> keys, by |-> by, how |-> how]

NoLookup == Lookup("idle", "", <<>>, <<>>, "")

\* if (ids.length === 0) return []: no store call for an empty list
LookupAlways(table, keys, by, how) ==
    Lookup("pending", table, keys, by, how)

\* if (ids.length === 0) return []: no store call for an empty list
LookupOrNone(table, keys, by, how) ==
    IF Len(keys) = 0 THEN NoLookup ELSE Lookup("pending", table, keys, by, how)

\* searchBestResult's Promise.all([..])
BestResultLookups(idsOf) ==
    [l \in LookupNames |->
        IF l = "best" THEN NoLookup
        ELSE IF l = "playlist"
        THEN LookupOrNone("playlists", ParseIntIds(idsOf[l]),
                          ParseIntIds(idsOf[l]), "hydratePlaylists")
        ELSE LookupOrNone(getTableNameForType(l), idsOf[l], idsOf[l], "hydrateByIds")]

\* searchAll's Promise.all([..]), the best result's own lookup included
AllLookups(idsOf, meta) ==
    [l \in LookupNames |->
        IF l = "best"
        THEN IF meta = Absent THEN NoLookup
             ELSE LookupOrNone(getTableNameForType(Get(meta).type),
                               <<Get(meta).id>>, <<Get(meta).id>>, "hydrateByIds")
        ELSE LookupOrNone(getTableNameForType(l), idsOf[l], idsOf[l], "hydrateByIds")]

\* The store call of a single-collection handler, reached with ids present.
SingleLookups(op, idsOf) ==
    [l \in LookupNames |->
        IF l # TypeOfOp(op) THEN NoLookup
        ELSE IF op = "users"
        THEN Lookup("pending", "user", idsOf[l], idsOf[l], "inlineUsers")
        ELSE Lookup("pending", getTableNameForType(l), ParseIntIds(idsOf[l]),
                    idsOf[l], "inline")]

\* What a lookup's continuation makes of the store's data.
HydratorOutput(lk, data) ==
    CASE lk.how = "hydrateByIds" -> hydrateByIds(data, lk.by)
      [] lk.how = "hydratePlaylists" -> hydratePlaylists(data, lk.by)
      [] lk.how = "inline" -> hydrateByIds(data, lk.by)
      [] lk.how = "inlineUsers" -> hydratePlaylists(data, lk.by)

(***************************************************************************)
(* Errors.  A message is the sequence of the pieces it is built from.       *)
(***************************************************************************)
\* The message of the engine's error for a failing sub-query.
EngineErrorMessage(collection) == <<"engine: search failed on ", collection>>

\* error.message of a failing store lookup
StoreErrorMessage(table) == <<"store: lookup failed on ", table>>

\* throw new Error(..) of a lookup's continuation
HydrationError(lk) ==
    CASE lk.how = "hydrateByIds" ->
           <<"Failed to hydrate from ", lk.table, ": ">> \o StoreErrorMessage(lk.table)
      [] lk.how = "hydratePlaylists" ->
           <<"Failed to hydrate playlists: ">> \o StoreErrorMessage(lk.table)
      [] OTHER -> StoreErrorMessage(lk.table)

\* request.log.error(error, <label>)
LogLabel(op) ==
    CASE op \in MultiOps -> "All search failed"
      [] op = "movies" -> "Movie search failed"
      [] op = "tv-series" -> "TV series search failed"
      [] op = "persons" -> "Person search failed"
      [] op = "users" -> "User search failed"
      [] op = "playlists" -> "Playlist search failed"

LogEntry(op, message) == [label |-> LogLabel(op), error |-> message]

(***************************************************************************)
(* Responses.  A body field that is not there is Absent; bestResult: null   *)
(* is Some(Null).                                                           *)
(***************************************************************************)
Response(status, error, bestResult, sections) ==
    [status |-> status, error |-> error, bestResult |-> bestResult,
     sections |-> sections]

NoResponse == Response(0, Absent, Absent, <<>>)

GenericError == <<"An internal server error occurred">>

\* The failure reply with the error's message in it: a plausible slip.
FailureReplyEchoing(message) == Response(500, Some(message), Absent, <<>>)

\* reply.status(500).send({ error: 'An internal server error occurred' })
FailureReply(message) == Response(500, Some(GenericError), Absent, <<>>)

Null == [type |-> "null", data |-> Undefined]

Pagination(total_results, total_pages, current_page, per_page) ==
    [total_results |-> total_results, total_pages |-> total_pages,
     current_page |-> current_page, per_page |-> per_page]

Section(data, pagination) == [data |-> data, pagination |-> pagination]

\* array.find(item => item.id == id), undefined when there is none
FindLoose(array, id) ==
    IF \E i \in 1..Len(array) : LooseEq(array[i].id, id)
    THEN array[CHOOSE i \in 1..Len(array) :
                  /\ LooseEq(array[i].id, id)
                  /\ \A j \in 1..(i - 1) : ~LooseEq(array[j].id, id)]
    ELSE Undefined

\* array.find(item => String(item?.id) == id), undefined when there is none
FindByString(array, id) ==
    IF \E i \in 1..Len(array) : JSString(array[i].id) = id
    THEN array[CHOOSE i \in 1..Len(array) :
                  /\ JSString(array[i].id) = id
                  /\ \A j \in 1..(i - 1) : JSString(array[j].id) # id]
    ELSE Undefined

\* searchBestResult's bestResult
BestResultOfBestResults(meta, hyd) ==
    IF meta = Absent THEN Null
    ELSE [type |-> Get(meta).type,
          data |-> IF Get(meta).type = "playlist"
                   THEN FindByString(hyd["playlist"], Get(meta).id)
                   ELSE FindLoose(hyd[Get(meta).type], Get(meta).id)]

\* searchAll's bestResult without its && hydratedBestResultData[0]: a
\* plausible slip (a best result whose data is undefined).
BestResultOfAllUnchecked(meta, hyd) ==
    IF meta = Absent THEN Null
    ELSE [type |-> Get(meta).type,
          data |-> IF Len(hyd["best"]) > 0 THEN hyd["best"][1] ELSE Undefined]

\* searchAll's bestResult
BestResultOfAll(meta, hyd) ==
    IF meta # Absent /\ Len(hyd["best"]) > 0
    THEN [type |-> Get(meta).type, data |-> hyd["best"][1]]
    ELSE Null

\* The sections with the users' and the playlists' hydrated lists exchanged,
\* as by a slip in the destructuring of Promise.all's result.
MultiSectionsMisaligned(res, hyd, perType) ==
    [c \in Collections |->
        LET t == CHOOSE x \in Types : CollectionOf(x) = c
            r == ResultOfType(res, t)
            from == CASE t = "user" -> "playlist"
                      [] t = "playlist" -> "user"
                      [] OTHER -> t
        IN  Section(hyd[from],
                    Pagination(r.found, Ceil(r.found, perType), 1, perType))]

\* The five sections of an aggregate response.
MultiSections(res, hyd, perType) ==
    [c \in Collections |->
        LET t == CHOOSE x \in Types : CollectionOf(x) = c
            r == ResultOfType(res, t)
        IN  Section(hyd[t],
                    Pagination(r.found, Ceil(r.found, perType), 1, perType))]

\* The success payload of an aggregate handler.
MultiResponse(req, res, meta, hyd) ==
    IF req.op = "best-results"
    THEN Response(200, Absent, Some(BestResultOfBestResults(meta, hyd)),
                  MultiSections(res, hyd, req.results_per_type))
    ELSE Response(200, Absent, Some(BestResultOfAll(meta, hyd)),
                  MultiSections(res, hyd, resultsPerType))

\* if (ids.length === 0) return { data: [], pagination: {0, 0, page, per_page} }
EmptyResponse(req) ==
    Response(200, Absent, Absent,
             [c \in {CollectionOf(TypeOfOp(req.op))} |->
                 Section(<<>>, Pagination(0, 0, req.page, req.per_page))])

\* The success payload with the length of the page's data for the engine's
\* found: a plausible slip.
SingleResponseCountingData(req, res, hyd) ==
    Response(200, Absent, Absent,
             [c \in {CollectionOf(TypeOfOp(req.op))} |->
                 Section(hyd[TypeOfOp(req.op)],
                         Pagination(Len(hyd[TypeOfOp(req.op)]),
                                    Ceil(Len(hyd[TypeOfOp(req.op)]), req.per_page),
                                    req.page, req.per_page))])

\* The success payload of a single-collection handler.
SingleResponse(req, res, hyd) ==
    Response(200, Absent, Absent,
             [c \in {CollectionOf(TypeOfOp(req.op))} |->
                 Section(hyd[TypeOfOp(req.op)],
                         Pagination(res[1].found, Ceil(res[1].found, req.per_page),
                                    req.page, req.per_page))])

SuccessResponse(req, res, meta, hyd) ==
    IF req.op \in MultiOps THEN MultiResponse(req, res, meta, hyd)
    ELSE SingleResponse(req, res, hyd)

(***************************************************************************)
(* The store client of a request (the supabaseClient getter).  A client is  *)
(* its identity (the shared client is 0, the n-th client the getter builds  *)
(* is n), the key it was built with and the request whose token it sends.   *)
(***************************************************************************)
Requests == {"r1", "r2", "r3"}

\* req.user: null, or the token's payload with its optional role
Users ==
    {Absent} \cup
    {Some([role |-> ro]) :
        ro \in {Absent, Some("anon"), Some("authenticated"), Some("service_role")}}

\* user?.role
RoleOf(user) == IF user = Absent THEN Absent ELSE Get(user).role

createClient(key, authorization, n) ==
    [id |-> n, key |-> key, authorization |-> authorization]

\* const supabase = createClient(url, serviceKey, options)
supabase == createClient("serviceKey", Absent, 0)

\* A test that also takes the anon role for the service role: a plausible slip.
IsServiceOrAnon(user) == RoleOf(user) \in {Some("service_role"), Some("anon")}

\* user?.role === "service_role"
IsService(user) == RoleOf(user) = Some("service_role")

\* user?.role && user.role !== "anon" ? { Authorization: .. } : {}
AuthorizationOf(user, r) ==
    IF RoleOf(user) # Absent /\ RoleOf(user) # Some("anon") THEN Some(r) ELSE Absent

\* if (req._supabaseClient) return req._supabaseClient
CachedClient(c, r) == c.cached[r]

\* The clients before any request has asked for one.
NoClients(users) ==
    [user |-> users,
     cached |-> [r \in Requests |-> Absent],
     created |-> 0,
     returned |-> [r \in Requests |-> <<>>]]

(***************************************************************************)
(* The handler, cut at its awaits.                                          *)
(***************************************************************************)
InitRequest ==
    /\ pc = "received"
    /\ sent = <<>>
    /\ results = <<>>
    /\ ids = [t \in Types |-> <<>>]
    /\ scored = [t \in Types |-> Absent]
    /\ bestResultMeta = Absent
    /\ lookups = [l \in LookupNames |-> NoLookup]
    /\ hydrated = [l \in LookupNames |-> <<>>]
    /\ response = NoResponse
    /\ log = Absent

InitHandler ==
    /\ InitRequest
    /\ clients = NoClients([r \in Requests |-> Absent])

\* From the request's arrival to the engine call: the query specifications
\* are built and handed to the engine.
Start ==
    /\ pc = "received"
    /\ sent' = Searches(request)
    /\ pc' = "engine"
    /\ UNCHANGED <<env, results, ids, scored, bestResultMeta, lookups, hydrated,
                   response, log>>

\* A batch that rejects only when its first sub-query fails: a plausible slip.
FailingFirstOnly == {i \in {1} : sent[i].collection \in engineFails}

\* The sub-queries of the batch that fail: the engine call rejects when there
\* is one.
FailingSubQueries == {i \in 1..Len(sent) : sent[i].collection \in engineFails}

\* The engine call rejects: the catch block logs and replies.
EngineReject ==
    /\ pc = "engine"
    /\ FailingSubQueries # {}
    /\ LET i == CHOOSE j \in FailingSubQueries : \A k \in FailingSubQueries : j <= k
       IN  /\ log' = Some(LogEntry(request.op, EngineErrorMessage(sent[i].collection)))
           /\ response' = FailureReply(EngineErrorMessage(sent[i].collection))
    /\ pc' = "done"
    /\ UNCHANGED <<env, sent, results, ids, scored, bestResultMeta, lookups,
                   hydrated>>

\* The ids of every type after the engine's answer res to request req.
IdsAfter(req, res) ==
    [t \in Types |->
        IF req.op \in MultiOps THEN IdsOf(ResultOfType(res, t))
        ELSE IF t = TypeOfOp(req.op) THEN IdsOf(res[1])
        ELSE <<>>]

ScoredAfter(req, res) ==
    IF req.op \in MultiOps THEN Scored(res) ELSE [t \in Types |-> Absent]

MetaAfter(req, res) ==
    IF req.op \in MultiOps THEN SelectBest(res) ELSE Absent

LookupsAfter(req, res) ==
    CASE req.op = "best-results" -> BestResultLookups(IdsAfter(req, res))
      [] req.op = "all" -> AllLookups(IdsAfter(req, res), MetaAfter(req, res))
      [] OTHER -> IF Len(IdsAfter(req, res)[TypeOfOp(req.op)]) = 0
                  THEN [l \in LookupNames |-> NoLookup]
                  ELSE SingleLookups(req.op, IdsAfter(req, res))

\* The lookups awaited with those never issued among them: a plausible slip.
PendingOrIdle(lks) == {l \in LookupNames : lks[l].status \in {"pending", "idle"}}

Pending(lks) == {l \in LookupNames : lks[l].status = "pending"}

\* The engine call resolves: the ids are read off the hits, the best result
\* is selected (aggregate handlers) and the store lookups are issued; with
\* nothing to look up the handler runs on to its response.
EngineResolve ==
    /\ pc = "engine"
    /\ FailingSubQueries = {}
    /\ LET res == [i \in 1..Len(sent) |-> engine[sent[i].collection]]
           lks == LookupsAfter(request, res)
       IN  /\ results' = res
           /\ ids' = IdsAfter(request, res)
           /\ scored' = ScoredAfter(request, res)
           /\ bestResultMeta' = MetaAfter(request, res)
           /\ lookups' = lks
           /\ IF Pending(lks) # {}
              THEN /\ pc' = "hydrating"
                   /\ UNCHANGED response
              ELSE /\ pc' = "done"
                   /\ response' =
                        IF request.op \in MultiOps
                        THEN MultiResponse(request, res, MetaAfter(request, res), hydrated)
                        ELSE EmptyResponse(request)
    /\ UNCHANGED <<env, sent, hydrated, log>>

\* The error of a lookup left unchecked: a plausible slip.
ErrorUnchecked(lk) == FALSE

\* A lookup that also fails when the store holds no record for one of its
\* keys: a plausible slip.
FailsOnMissing(lk) ==
    lk.table \in storeFails \/ Len(StoreIn(lk.table, lk.keys)) < Len(lk.keys)

\* if (error) throw new Error(..)
LookupFails(lk) == lk.table \in storeFails

\* A store lookup returns data: its continuation puts the records in order;
\* the last of the lookups to return lets the handler run on to its response.
\* A lookup that returns after the handler has replied changes nothing the
\* caller sees.
StoreReturn(l) ==
    /\ lookups[l].status = "pending"
    /\ ~LookupFails(lookups[l])
    /\ LET out == HydratorOutput(lookups[l], StoreIn(lookups[l].table, lookups[l].keys))
           hyd == [hydrated EXCEPT ![l] = out]
       IN  /\ hydrated' = hyd
           /\ lookups' = [lookups EXCEPT ![l].status = "ok"]
           /\ IF pc = "hydrating" /\ Pending(lookups) = {l}
              THEN /\ pc' = "done"
                   /\ response' = SuccessResponse(request, results, bestResultMeta, hyd)
              ELSE UNCHANGED <<pc, response>>
    /\ UNCHANGED <<env, sent, results, ids, scored, bestResultMeta, log>>

\* A store lookup returns an error: its continuation throws, Promise.all
\* rejects at once and the catch block logs and replies.
StoreError(l) ==
    /\ lookups[l].status = "pending"
    /\ LookupFails(lookups[l])
    /\ lookups' = [lookups EXCEPT ![l].status = "error"]
    /\ IF pc = "hydrating"
       THEN /\ pc' = "done"
            /\ log' = Some(LogEntry(request.op, HydrationError(lookups[l])))
            /\ response' = FailureReply(HydrationError(lookups[l]))
       ELSE UNCHANGED <<pc, log, response>>
    /\ UNCHANGED <<env, sent, results, ids, scored, bestResultMeta, hydrated>>

Next ==
    \/ Start
    \/ EngineReject
    \/ EngineResolve
    \/ \E l \in LookupNames : StoreReturn(l)
    \/ \E l \in LookupNames : StoreError(l)

\* The steps of a request that meets no failure.
NextOk ==
    \/ Start
    \/ EngineResolve
    \/ \E l \in LookupNames : StoreReturn(l)

\* The steps of a request up to the engine's answer.
NextToEngine ==
    \/ Start
    \/ EngineResolve

(***************************************************************************)
(* The inputs.                                                              *)
(***************************************************************************)
\* The largest number of hits in one engine result.
MaxHits == 3

User7 == Str(<<7>>)
User8 == Str(<<8>>)
Actors == {Absent, Some(User7), Some(User8)}

NoBounds(op) ==
    [d \in {DimsOf(op)[i] : i \in 1..Len(DimsOf(op))} |->
        [min |-> Absent, max |-> Absent]]

\* A request without filters: page 1, MaxHits per page and per type.
PlainRequest(op, userId) ==
    [op |-> op, userId |-> userId, query |-> "q", page |-> 1,
     per_page |-> MaxHits, sort_by |-> "popularity",
     results_per_type |-> MaxHits, genre_ids |-> Absent,
     exclude_ids |-> Absent, bounds |-> NoBounds(op)]

\* The record of a table with the id whose decimal form is the string sid.
RecordOf(table, sid) ==
    IF table = "user" THEN Rec(table, sid) ELSE Rec(table, Num(ParseInt(sid.s)))

PlainDoc(sid) == Doc(sid, Absent, Absent, Absent)

\* The store with a record for the ids 1 and 2 in every table, and none for 3.
Id1 == Str(<<1>>)
Id2 == Str(<<2>>)
Id3 == Str(<<3>>)

FullStore == [t \in Tables |-> <<RecordOf(t, Id2), RecordOf(t, Id1)>>]

\* A set of tables or collections of which at most one fails.
AtMostOne(S) == {{}} \cup {{x} : x \in S}

(***************************************************************************)
(* Spec: every operation, with and without an actor, the engine holding no  *)
(* hit or one hit per collection, and at most one failure: of one engine    *)
(* sub-query or of one table's lookup.                                      *)
(***************************************************************************)
FlowResults ==
    {Result(Some(<<>>), 0),
     Result(Some(<<Hit(Doc(Id1, Some(100), Absent, Absent), Some(8))>>), 1)}

Init ==
    /\ request \in {PlainRequest(op, a) : op \in SingleOps \cup MultiOps, a \in Actors}
    /\ engine \in [Collections -> FlowResults]
    /\ engineFails \in AtMostOne(Collections)
    /\ storeFails \in AtMostOne(Tables)
    /\ engineFails = {} \/ storeFails = {}
    /\ store = FullStore
    /\ InitHandler

Spec == Init /\ [][Next]_vars

\* The queries of the collection c among those sent.
SentTo(c) == {i \in 1..Len(sent) : sent[i].collection = c}

\* The one failure response: status 500, the generic message, no data.
IsGenericFailure(r) ==
    /\ r.status = 500
    /\ r.error = Some(GenericError)
    /\ r.bestResult = Absent
    /\ DOMAIN r.sections = {}

\* C2: in the aggregate operations, when one of the five sub-queries of the
\* engine batch fails, the response is never a success payload, the request
\* ends with the generic failure response, and that response holds no
\* bestResult and no section (data, pagination) of any type.
C2_BatchFailureFailsAll ==
    (request.op \in MultiOps /\ engineFails # {}) =>
        /\ response.status # 200
        /\ Pending(lookups) = {}
        /\ pc = "done" => IsGenericFailure(response)

\* C2's case: the playlists sub-query fails while the movies sub-query has a
\* hit, and the request has ended.
C2_Witness ==
    /\ request.op \in MultiOps
    /\ engineFails = {"playlists"}
    /\ Get(engine["movies"].hits) # <<>>
    /\ pc = "done"
    /\ response.status = 500

\* C3: in the aggregate operations, once the store lookup of one type has
\* returned an error the request has ended with the generic failure response
\* and no data, and a request with a lookup on a failing table never gets a
\* success payload, in whatever order the other lookups return.
C3_StoreErrorFailsAll ==
    request.op \in MultiOps =>
        \A l \in LookupNames :
            /\ lookups[l].status = "error" =>
                   pc = "done" /\ IsGenericFailure(response)
            /\ (lookups[l].status # "idle" /\ lookups[l].table \in storeFails) =>
                   response.status # 200

\* C3's case: one lookup has returned an error and every other issued lookup
\* has returned its data (four of them).
C3_Witness ==
    /\ request.op \in MultiOps
    /\ \E l \in LookupNames : lookups[l].status = "error"
    /\ Cardinality({l \in LookupNames : lookups[l].status = "ok"}) = 4
    /\ IsGenericFailure(response)

\* C4: whatever the operation and whatever failed (the engine or the store,
\* whichever collection or table), the failure response is the same constant
\* {status 500, error: the generic message}, and no piece of the logged
\* error's message is in it.
C4_UniformFailure ==
    response.status \notin {0, 200} =>
        /\ response = Response(500, Some(GenericError), Absent, <<>>)
        /\ log # Absent
        /\ \A i \in 1..Len(Get(log).error), j \in 1..Len(Get(response.error)) :
               Get(log).error[i] # Get(response.error)[j]

\* C4's case: a single-collection request that failed on its store lookup.
C4_Witness ==
    /\ request.op = "movies"
    /\ response.status = 500
    /\ Get(log).error = StoreErrorMessage("media_movie")

(***************************************************************************)
(* The engine's reading of a permission filter (the filter grammar of the   *)
(* engine's query interface), over the playlists of two users.              *)
(***************************************************************************)
PlaylistDocs ==
    [is_private : BOOLEAN, owner_id : {User7, User8}, guest_ids : SUBSET {User7, User8}]

TermHolds(term, p) ==
    CASE term.field = "is_private" -> p.is_private = (term.args[1] = Bool(TRUE))
      [] term.field = "owner_id" -> p.owner_id = term.args[1]
      [] term.field = "guest_ids" -> term.args[1] \in p.guest_ids

Admits(filter, p) ==
    IF filter.join = "||"
    THEN \E i \in 1..Len(filter.terms) : TermHolds(filter.terms[i], p)
    ELSE \A i \in 1..Len(filter.terms) : TermHolds(filter.terms[i], p)

\* What the actor may see.
Visible(userId, p) ==
    \/ ~p.is_private
    \/ userId # Absent /\ (p.owner_id = Get(userId) \/ Get(userId) \in p.guest_ids)

\* C10: the playlist search and both aggregate operations send a playlists
\* query, and every playlists query sent carries a filter that admits exactly
\* the playlists that are not private or, with an actor, are owned by the
\* actor or list the actor as a guest.
C10_PermissionFilter ==
    /\ (pc # "received" /\ request.op \in {"playlists", "best-results", "all"}) =>
           SentTo("playlists") # {}
    /\ \A i \in SentTo("playlists") :
           /\ sent[i].filter_by # Absent
           /\ \A p \in PlaylistDocs :
                  Admits(Get(sent[i].filter_by), p) <=> Visible(request.userId, p)

\* C10's case: an aggregate request of user 7 has sent its playlists query.
C10_Witness ==
    /\ request.op = "all"
    /\ request.userId = Some(User7)
    /\ SentTo("playlists") # {}

(***************************************************************************)
(* SpecHydrate: one type has hits, in every order of up to MaxHits ids out  *)
(* of 1, 2, 3 and 01 (the id 1 written with a leading zero); the type's      *)
(* table holds any of the records 1, 2, 3 in any order of its own.          *)
(***************************************************************************)
Id01 == Str(<<0, 1>>)

\* The sequences without repetition of at most n elements of S.
RECURSIVE SeqsNoDup(_, _)
SeqsNoDup(S, n) ==
    IF n = 0 THEN {<<>>}
    ELSE LET shorter == SeqsNoDup(S, n - 1)
             longer == {Append(q, x) : q \in shorter, x \in S}
         IN  shorter \cup
             {q \in longer : \A i \in 1..(Len(q) - 1) : q[i] # q[Len(q)]}

HitsOf(idList) == [i \in 1..Len(idList) |-> Hit(PlainDoc(idList[i]), Some(8))]

ResultOfIds(idList) == Result(Some(HitsOf(idList)), Len(idList))

InitHydrate ==
    /\ request \in {PlainRequest(op, Absent) : op \in SingleOps \cup MultiOps}
    /\ \E t \in Types, idList \in SeqsNoDup({Id1, Id2, Id3, Id01}, MaxHits),
          recs \in SeqsNoDup({Id1, Id2, Id3}, 3) :
          /\ request.op \in SingleOps => t = TypeOfOp(request.op)
          /\ engine = [c \in Collections |->
                          IF c = CollectionOf(t) THEN ResultOfIds(idList)
                          ELSE ResultOfIds(<<>>)]
          /\ store = [tb \in Tables |->
                         IF tb = getTableNameForType(t)
                         THEN [i \in 1..Len(recs) |-> RecordOf(tb, recs[i])]
                         ELSE <<>>]
    /\ engineFails = {}
    /\ storeFails = {}
    /\ InitHandler

SpecHydrate == InitHydrate /\ [][NextOk]_vars

\* The string forms of the ids of a list of ids or of records.
StringsOfIds(idList) == [i \in 1..Len(idList) |-> JSString(idList[i])]
StringsOfRecords(recs) == [i \in 1..Len(recs) |-> JSString(recs[i].id)]

\* C1: for every id list and every store response (the records of any subset
\* of the requested ids, in any order), the hydrator's output holds only
\* records of the response (no null, no undefined), and the ids of the output
\* are the ids of the input list that have a record in the response, in the
\* order of the input list; the response's own order plays no part.  An id
\* has a record when the string form of the record's id is that id.  The
\* hydrators are hydrateByIds, hydratePlaylists and the single-collection
\* handlers' own.
C1_HydrationOrder ==
    \A l \in LookupNames :
        lookups[l].status = "ok" =>
            LET data == StoreIn(lookups[l].table, lookups[l].keys)
                input == StringsOfIds(lookups[l].by)
                out == hydrated[l]
            IN  /\ \A k \in 1..Len(out) :
                       /\ out[k] # Undefined
                       /\ \E i \in 1..Len(data) : data[i] = out[k]
                /\ StringsOfRecords(out) =
                       SelectSeq(input, LAMBDA sid :
                           \E i \in 1..Len(data) : JSString(data[i].id) = sid)

\* C1's case: three ids were looked up, the store returned the records of the
\* first and the last of them with the last one first, and the output holds
\* the two in the input's order.
C1_Witness ==
    \E l \in Types :
        /\ lookups[l].status = "ok"
        /\ ids[l] = <<Id1, Id2, Id3>>
        /\ StringsOfRecords(StoreIn(lookups[l].table, lookups[l].keys)) = <<Id3, Id1>>
        /\ StringsOfRecords(hydrated[l]) = <<Id1, Id3>>

(***************************************************************************)
(* SpecFilter: the movie and the tv-series search with every combination of *)
(* bounds out of absent, 0 and a positive value on every numeric dimension, *)
(* with and without genres, followed to the engine's answer.                *)
(***************************************************************************)
MinValues == {Absent, Some(0), Some(10)}
MaxValues == {Absent, Some(0), Some(20)}
GenreValues == {Absent, Some(<<>>), Some(<<Id1, Id2>>)}

DimSet(op) == {DimsOf(op)[i] : i \in 1..Len(DimsOf(op))}

FilterRequest(op, genre_ids, bounds) ==
    [PlainRequest(op, Absent) EXCEPT !.genre_ids = genre_ids, !.bounds = bounds]

InitFilter ==
    /\ request \in
         {FilterRequest(op, g, b) :
             op \in {"movies"}, g \in GenreValues,
             b \in [DimSet("movies") -> [min : MinValues, max : MaxValues]]}
         \cup
         {FilterRequest(op, g, b) :
             op \in {"tv-series"}, g \in GenreValues,
             b \in [DimSet("tv-series") -> [min : MinValues, max : MaxValues]]}
    /\ engine = [c \in Collections |-> ResultOfIds(<<>>)]
    /\ store = FullStore
    /\ engineFails = {}
    /\ storeFails = {}
    /\ InitHandler

SpecFilter == InitFilter /\ [][NextToEngine]_vars

\* The terms of a filter expression on one field.
TermsOn(filter_by, field) ==
    IF filter_by = Absent THEN <<>>
    ELSE SelectSeq(Get(filter_by).terms, LAMBDA term : term.field = field)

\* C9: for every numeric dimension of the movie and the tv-series search and
\* every pair of bounds, a bound of 0 included: both bounds present give the
\* one term field: [min..max], only min gives field: >min, only max gives
\* field: <max, and neither gives no term on that field.
C9_RangeTerms ==
    (pc # "received" /\ request.op \in {"movies", "tv-series"}) =>
        \A d \in DimSet(request.op) :
            LET min == request.bounds[d].min
                max == request.bounds[d].max
                terms == TermsOn(sent[1].filter_by, d)
            IN  /\ (min # Absent /\ max # Absent) =>
                       terms = <<Term(d, "[..]", <<Num(Get(min)), Num(Get(max))>>)>>
                /\ (min # Absent /\ max = Absent) =>
                       terms = <<Term(d, ">", <<Num(Get(min))>>)>>
                /\ (min = Absent /\ max # Absent) =>
                       terms = <<Term(d, "<", <<Num(Get(max))>>)>>
                /\ (min = Absent /\ max = Absent) => terms = <<>>

\* The same for the bounds that are absent or not 0: what the handlers do.
C9_RangeTermsNonZero ==
    (pc # "received" /\ request.op \in {"movies", "tv-series"}) =>
        \A d \in DimSet(request.op) :
            LET min == request.bounds[d].min
                max == request.bounds[d].max
                terms == TermsOn(sent[1].filter_by, d)
            IN  (min # Some(0) /\ max # Some(0)) =>
                    /\ (min # Absent /\ max # Absent) =>
                           terms = <<Term(d, "[..]", <<Num(Get(min)), Num(Get(max))>>)>>
                    /\ (min # Absent /\ max = Absent) =>
                           terms = <<Term(d, ">", <<Num(Get(min))>>)>>
                    /\ (min = Absent /\ max # Absent) =>
                           terms = <<Term(d, "<", <<Num(Get(max))>>)>>
                    /\ (min = Absent /\ max = Absent) => terms = <<>>

(***************************************************************************)
(* SpecRank: the aggregate handlers with, per collection, no hit or a list  *)
(* of hits out of four, followed to the engine's answer and the selection.  *)
(* The popularity of a hit is in the field its collection indexes:          *)
(* popularity for movies, tv series and persons, followers_count for users, *)
(* likes_count for playlists.                                               *)
(***************************************************************************)
DocOfType(type, id, pop) ==
    CASE type = "user" -> Doc(id, Absent, Some(pop), Absent)
      [] type = "playlist" -> Doc(id, Absent, Absent, Some(pop))
      [] OTHER -> Doc(id, Some(pop), Absent, Absent)

HitOfType(type, id, text, pop) == Hit(DocOfType(type, id, pop), Some(text))

\* Per collection: no hit; A (text 8, popularity 100); B (text 4, popularity
\* 500); a hit of text 0 and popularity 0; a hit (4, 100) followed by a second
\* hit with the greatest text and popularity of all.
RankResults(type) ==
    <<Result(Some(<<>>), 0),
      Result(Some(<<HitOfType(type, Id1, 8, 100)>>), 1),
      Result(Some(<<HitOfType(type, Id2, 4, 500)>>), 1),
      Result(Some(<<HitOfType(type, Id3, 0, 0)>>), 1),
      Result(Some(<<HitOfType(type, Id1, 4, 100), HitOfType(type, Id2, 9, 900)>>), 2)>>

TypeOfCollection(c) == CHOOSE t \in Types : CollectionOf(t) = c

InitRank ==
    /\ request \in {PlainRequest(op, Absent) : op \in MultiOps}
    /\ \E kind \in [Collections -> 1..5] :
          engine = [c \in Collections |-> RankResults(TypeOfCollection(c))[kind[c]]]
    /\ store = FullStore
    /\ engineFails = {}
    /\ storeFails = {}
    /\ InitHandler

SpecRank == InitRank /\ [][NextToEngine]_vars

\* The collections' rank-1 hits as the engine holds them.
Candidates == {t \in Types : Get(engine[CollectionOf(t)].hits) # <<>>}

RankOne(type) == Get(engine[CollectionOf(type)].hits)[1]

TextOf(type) == Get(RankOne(type).text_match)

PopOf(type) ==
    CASE type = "user" -> Get(RankOne(type).document.followers_count)
      [] type = "playlist" -> Get(RankOne(type).document.likes_count)
      [] OTHER -> Get(RankOne(type).document.popularity)

Selected == pc \in {"hydrating", "done"} /\ request.op \in MultiOps

SameScore(a, b) == a.num * b.den = b.num * a.den

\* C5: when at least one collection has a hit, the best-result candidate is a
\* collection's rank-1 hit whose hybrid score no other candidate's exceeds,
\* and among the candidates of that score it is the earliest in the order
\* movie, tv_series, person, user, playlist.
C5_BestIsMaxEarliest ==
    (Selected /\ Candidates # {}) =>
        /\ bestResultMeta # Absent
        /\ LET best == Get(bestResultMeta)
           IN  /\ best.type \in Candidates
               /\ best.id = RankOne(best.type).document.id
               /\ SameScore(best.score, Get(scored[best.type]))
               /\ \A t \in Candidates :
                      /\ ~Greater(Get(scored[t]), best.score)
                      /\ SameScore(Get(scored[t]), best.score) =>
                             IndexOfType(best.type) <= IndexOfType(t)

C5_Witness ==
    /\ Selected
    /\ \E t1 \in Candidates, t2 \in Candidates, t3 \in Candidates :
          /\ IndexOfType(t3) < IndexOfType(t1)
          /\ IndexOfType(t1) < IndexOfType(t2)
          /\ SameScore(Get(scored[t1]), Get(scored[t2]))
          /\ Greater(Get(scored[t1]), Get(scored[t3]))
          /\ bestResultMeta # Absent
          /\ Get(bestResultMeta).type = t1

\* The greatest text relevance and the greatest popularity over the rank-1
\* hits of the request, each no less than 1.
MaxText == MaxOf({TextOf(t) : t \in Candidates} \cup {1})
MaxPop == MaxOf({PopOf(t) : t \in Candidates} \cup {1})

\* C6: a candidate's hybrid score is 0.9 * text / maxText + 0.1 * pop / maxPop,
\* the maxima taken over the rank-1 hits of this request and floored at 1; a
\* request whose only candidates are A (8, 100) and B (4, 500) scores A 0.92
\* and B 0.55 and selects A.
C6_HybridScore ==
    Selected =>
        /\ \A t \in Types : (scored[t] # Absent) <=> (t \in Candidates)
        /\ \A t \in Candidates :
               Get(scored[t]).num * (10 * MaxText * MaxPop) =
                   Get(scored[t]).den * (9 * TextOf(t) * MaxPop + 1 * PopOf(t) * MaxText)
        /\ \A a \in Candidates, b \in Candidates :
               (/\ Candidates = {a, b}
                /\ TextOf(a) = 8 /\ PopOf(a) = 100
                /\ TextOf(b) = 4 /\ PopOf(b) = 500) =>
                   /\ Get(scored[a]).num * 100 = 92 * Get(scored[a]).den
                   /\ Get(scored[b]).num * 100 = 55 * Get(scored[b]).den
                   /\ bestResultMeta # Absent
                   /\ Get(bestResultMeta).type = a

C6_Witness ==
    /\ Selected
    /\ Candidates = {"user", "movie"}
    /\ TextOf("user") = 8 /\ PopOf("user") = 100
    /\ TextOf("movie") = 4 /\ PopOf("movie") = 500
    /\ bestResultMeta # Absent
    /\ Get(bestResultMeta).type = "user"
    /\ Get(bestResultMeta).score.num * 100 = 92 * Get(bestResultMeta).score.den

(***************************************************************************)
(* SpecBest: the aggregate handlers without a failure, run to the response. *)
(* Per collection the engine holds no hit, one hit of relevance 0 and       *)
(* popularity 0, one hit whose id has no record in the store, or two hits.  *)
(***************************************************************************)
BestResults(type) ==
    <<Result(Some(<<>>), 0),
      Result(Some(<<HitOfType(type, Id1, 0, 0)>>), 1),
      Result(Some(<<HitOfType(type, Id3, 8, 100)>>), 1),
      Result(Some(<<HitOfType(type, Id1, 8, 100), HitOfType(type, Id2, 0, 0)>>), 2)>>

InitBest ==
    /\ request \in {PlainRequest(op, Absent) : op \in MultiOps}
    /\ \E kind \in [Collections -> 1..4] :
          engine = [c \in Collections |-> BestResults(TypeOfCollection(c))[kind[c]]]
    /\ store = FullStore
    /\ engineFails = {}
    /\ storeFails = {}
    /\ InitHandler

SpecBest == InitBest /\ [][NextOk]_vars

\* The store holds a record of the type's table under the id.
StoreHas(type, id) ==
    \E i \in 1..Len(store[getTableNameForType(type)]) :
        JSString(store[getTableNameForType(type)][i].id) = id

Replied == pc = "done" /\ request.op \in MultiOps /\ response.status = 200

MaxFound == 4
MaxPage == 3

Min2(a, b) == IF a <= b THEN a ELSE b

\* The number of hits on a page: the matches from (page - 1) * per_page + 1
\* on, per_page of them at most.
HitsOnPage(found, page, per_page) ==
    IF found <= (page - 1) * per_page THEN 0
    ELSE Min2(per_page, found - (page - 1) * per_page)

\* The engine's answer to a query for a page of a collection of found matches.
EnginePage(found, page, per_page) ==
    Result(Some([k \in 1..HitsOnPage(found, page, per_page) |->
                    Hit(PlainDoc(Str(<<(page - 1) * per_page + k>>)), Some(8))]),
           found)

\* The page a query asks for: page 1 when it names none.
PageOfQuery(query) == IF query.page = Absent THEN 1 ELSE Get(query.page)

PageRequest(op, page, per_page) ==
    [PlainRequest(op, Absent) EXCEPT
        !.page = page, !.per_page = per_page, !.results_per_type = per_page]

\* The query of the request for collection c, if it has one.
QueryFor(req, c) ==
    {Searches(req)[i] : i \in {j \in 1..Len(Searches(req)) : Searches(req)[j].collection = c}}

\* The engine holding found[c] matches of every collection c the request
\* queries, each answered with the page its query asks for.
EngineFor(req, found) ==
    [c \in Collections |->
        IF QueryFor(req, c) = {} THEN EnginePage(0, 1, 1)
        ELSE EnginePage(found[c], PageOfQuery(Get(QueryFor(req, c))),
                        Get(QueryFor(req, c)).per_page)]

InitPage ==
    /\ \/ \E op \in SingleOps, page \in 1..MaxPage, per_page \in 1..MaxPage,
             n \in 0..MaxFound :
             /\ request = PageRequest(op, page, per_page)
             /\ engine = EngineFor(request, [c \in Collections |-> n])
       \/ \E op \in MultiOps, per_type \in 1..2,
             found \in [Collections -> {0, 1, MaxFound}] :
             /\ request = PageRequest(op, 1, per_type)
             /\ engine = EngineFor(request, found)
    /\ store = FullStore
    /\ engineFails = {}
    /\ storeFails = {}
    /\ InitHandler

SpecPage == InitPage /\ [][NextOk]_vars

Succeeded == pc = "done" /\ response.status = 200

\* C11: in every successful response and for every type, total_pages is
\* ceil(total_results / per_page), i.e. the least number of pages of per_page
\* entries that hold total_results entries, and it is 0 exactly when
\* total_results is 0.
C11_TotalPages ==
    Succeeded =>
        \A c \in DOMAIN response.sections :
            LET p == response.sections[c].pagination
            IN  /\ p.per_page >= 1
                /\ p.total_results >= 0
                /\ p.total_pages * p.per_page >= p.total_results
                /\ p.total_pages > 0 =>
                       (p.total_pages - 1) * p.per_page < p.total_results
                /\ (p.total_pages = 0) <=> (p.total_results = 0)

C11_Witness ==
    /\ Succeeded
    /\ \E c \in DOMAIN response.sections :
          /\ response.sections[c].pagination.total_results = 4
          /\ response.sections[c].pagination.per_page = 3
          /\ response.sections[c].pagination.total_pages = 2

\* C12 as amended: in every successful response of an aggregate operation
\* total_results of a type is the match count the engine reported for it; in
\* a successful response of a single-collection operation it is that match
\* count when the returned page holds at least one hit, and 0 when the page
\* holds no hit, whatever match count the engine reported.
C12_TotalResults ==
    Succeeded =>
        \A c \in DOMAIN response.sections :
            response.sections[c].pagination.total_results =
                IF request.op \in SingleOps /\ Get(engine[c].hits) = <<>>
                THEN 0
                ELSE engine[c].found

C12_Witness ==
    /\ Succeeded
    /\ request.op = "movies"
    /\ engine["movies"].found = 4
    /\ Get(engine["movies"].hits) = <<>>
    /\ response.sections["movies"].pagination.total_results = 0

\* C12 as stated: in every successful response total_results of a type is
\* the match count the engine reported for the type's query, also for a page
\* without hits.
C12_TotalIsFound ==
    Succeeded =>
        \A c \in DOMAIN response.sections :
            response.sections[c].pagination.total_results = engine[c].found

\* C13: when the engine returns an empty hit list for a type, no store lookup
\* is ever issued for that type, and in the response the type has no data and
\* the pagination total_results 0, total_pages 0, the page and the page size
\* of the type's query.
C13_EmptyHits ==
    \A t \in Types :
        (QueryFor(request, CollectionOf(t)) # {}
            /\ Get(engine[CollectionOf(t)].hits) = <<>>) =>
            /\ lookups[t].status = "idle"
            /\ Succeeded =>
                   response.sections[CollectionOf(t)] =
                       Section(<<>>,
                               Pagination(0, 0,
                                   PageOfQuery(Get(QueryFor(request, CollectionOf(t)))),
                                   Get(QueryFor(request, CollectionOf(t))).per_page))

C13_Witness ==
    /\ Succeeded
    /\ request.op = "best-results"
    /\ Get(engine["users"].hits) = <<>>
    /\ Get(engine["movies"].hits) # <<>>
    /\ lookups["user"].status = "idle"
    /\ lookups["movie"].status = "ok"
    /\ response.sections["users"].data = <<>>

(***************************************************************************)
(* The best result's record and the store lookups of an aggregate request   *)
(* (SpecBest).                                                              *)
(***************************************************************************)
\* The lookups issued so far on a table.
IssuedOn(table) ==
    {l \in LookupNames : lookups[l].status # "idle" /\ lookups[l].table = table}

\* C14: in an aggregate request every table is looked up at most once and no
\* lookup is issued for the best result, whose record comes from the hydrated
\* list of its type.
C14_OneLookupPerType ==
    request.op \in MultiOps =>
        /\ lookups["best"].status = "idle"
        /\ \A table \in Tables : Cardinality(IssuedOn(table)) <= 1

\* C15: in every successful aggregate response bestResult is null or a pair
\* of the winning type and a store record of that type's table whose id is
\* the winning hit's id and which is an element of the type's data list; the
\* data is never undefined, also when the store has no record for the id.
C15_BestResultRecord ==
    Replied =>
        LET best == Get(response.bestResult)
        IN  best # Null =>
                /\ best.type = Get(bestResultMeta).type
                /\ best.data # Undefined
                /\ best.data.tbl = getTableNameForType(best.type)
                /\ JSString(best.data.id) = Get(bestResultMeta).id
                /\ \E i \in 1..Len(response.sections[CollectionOf(best.type)].data) :
                       response.sections[CollectionOf(best.type)].data[i] = best.data

(***************************************************************************)
(* SpecSoft: every operation, the engine returning per queried collection   *)
(* no hit, a hit whose id has no record in the store, or that hit followed  *)
(* by one that has a record; the movies sub-query or the movie table may    *)
(* fail.                                                                    *)
(***************************************************************************)
SoftResults == <<ResultOfIds(<<>>), ResultOfIds(<<Id3>>), ResultOfIds(<<Id3, Id1>>)>>

InitSoft ==
    /\ request \in {PlainRequest(op, Absent) : op \in SingleOps \cup MultiOps}
    /\ \E kind \in [Collections -> 1..3] :
          /\ \A c \in Collections : QueryFor(request, c) = {} => kind[c] = 1
          /\ engine = [c \in Collections |-> SoftResults[kind[c]]]
    /\ engineFails \in {{}, {"movies"}}
    /\ storeFails \in {{}, {"media_movie"}}
    /\ engineFails = {} \/ storeFails = {}
    /\ store = FullStore
    /\ InitHandler

SpecSoft == InitSoft /\ [][Next]_vars

\* The ids of the engine's hits of a type, in rank order.
EngineIds(type) ==
    [i \in 1..Len(Get(engine[CollectionOf(type)].hits)) |->
        Get(engine[CollectionOf(type)].hits)[i].document.id]

\* C16: when the engine returns ids the store has no record for, and neither
\* the engine nor the store fails, the request never gets a failure response
\* and ends with a success payload in which the data of every type is the
\* records of the engine's ids that the store has, in rank order: the other
\* ids are left out, and the data may be shorter than the hit list or empty.
C16_MissingIdsDropped ==
    (engineFails = {} /\ storeFails = {}) =>
        /\ response.status \in {0, 200}
        /\ \A l \in LookupNames : lookups[l].status # "error"
        /\ pc = "done" =>
               /\ response.status = 200
               /\ \A t \in Types :
                      CollectionOf(t) \in DOMAIN response.sections =>
                          LET data == response.sections[CollectionOf(t)].data
                          IN  /\ Len(data) <= Len(EngineIds(t))
                              /\ StringsOfRecords(data) =
                                     SelectSeq(EngineIds(t),
                                               LAMBDA id : StoreHas(t, id))

C16_Witness ==
    /\ Succeeded
    /\ request.op = "best-results"
    /\ EngineIds("movie") = <<Id3, Id1>>
    /\ EngineIds("playlist") = <<Id3>>
    /\ StringsOfRecords(response.sections["movies"].data) = <<Id1>>
    /\ response.sections["playlists"].data = <<>>

(***************************************************************************)
(* SpecSort: every operation, with and without an actor, with each of three *)
(* sort fields supplied by the caller, followed to the engine's answer.     *)
(***************************************************************************)
SortFields == {"popularity", "vote_average", "created_at"}

InitSort ==
    /\ request \in {[PlainRequest(op, actor) EXCEPT !.sort_by = field] :
                       op \in SingleOps \cup MultiOps, actor \in Actors,
                       field \in SortFields}
    /\ engine = [c \in Collections |-> ResultOfIds(<<Id1>>)]
    /\ store = FullStore
    /\ engineFails = {}
    /\ storeFails = {}
    /\ InitHandler

SpecSort == InitSort /\ [][NextToEngine]_vars

\* The keys of a query's sort expression, none when it has no sort expression.
SortKeysOf(query) == IF query.sort_by = Absent THEN <<>> ELSE Get(query.sort_by)

\* C17: the sort expression of every engine query, of every single-collection
\* operation and of both aggregate operations, has the bucketed relevance
\* term as its first key and a secondary field as its second.
C17_RelevanceFirst ==
    \A i \in 1..Len(sent) :
        /\ Len(SortKeysOf(sent[i])) = 2
        /\ SortKeysOf(sent[i])[1] = TextMatchKey
        /\ SortKeysOf(sent[i])[2] # TextMatchKey

\* C18 as amended: in the movies, tv-series, persons and playlists operations
\* the sort field supplied by the caller is the last key of the sort
\* expression sent to the engine (the key after the relevance key; in the
\* playlists operation the only key); in the users operation the secondary
\* field is followers_count whatever the caller supplies; in the best-results
\* operation it is popularity for movies, tv series and persons,
\* followers_count for users and likes_count for playlists.
C18_SecondaryField ==
    \A i \in 1..Len(sent) :
        LET keys == SortKeysOf(sent[i])
            c == sent[i].collection
        IN  CASE request.op \in {"movies", "tv-series", "persons"} ->
                   keys = <<TextMatchKey, SortKey(request.sort_by)>>
              [] request.op = "playlists" ->
                   keys = <<SortKey(request.sort_by)>>
              [] request.op = "users" ->
                   keys = <<TextMatchKey, SortKey("followers_count")>>
              [] request.op = "best-results" ->
                   /\ Len(keys) = 2
                   /\ keys[2] = SortKey(IF c = "users" THEN "followers_count"
                                        ELSE IF c = "playlists" THEN "likes_count"
                                        ELSE "popularity")
              [] OTHER -> TRUE

C18_Witness ==
    /\ pc = "engine"
    /\ request.op = "users"
    /\ request.sort_by = "created_at"
    /\ SortKeysOf(sent[1])[2] = SortKey("followers_count")

\* C18 as stated: in every single-collection operation the secondary sort
\* field sent to the engine is the sort field the caller supplied, and in the
\* best-results operation it is the fixed field of the type.
C18_CallerField ==
    \A i \in 1..Len(sent) :
        LET keys == SortKeysOf(sent[i])
            c == sent[i].collection
        IN  /\ request.op \in SingleOps =>
                   /\ Len(keys) >= 1
                   /\ keys[Len(keys)] = SortKey(request.sort_by)
            /\ request.op = "best-results" =>
                   /\ Len(keys) = 2
                   /\ keys[2] = SortKey(IF c = "users" THEN "followers_count"
                                        ELSE IF c = "playlists" THEN "likes_count"
                                        ELSE "popularity")

(***************************************************************************)
(* The join of the filter terms (SpecFilter).                               *)
(***************************************************************************)
\* The filter dimensions of the request that the caller supplied something
\* for: a numeric dimension with a bound, the genres with at least one id.
ActiveDims ==
    {d \in DimSet(request.op) :
        request.bounds[d].min # Absent \/ request.bounds[d].max # Absent}
    \cup (IF request.genre_ids # Absent /\ Get(request.genre_ids) # <<>>
          THEN {"genre_ids"} ELSE {})

\* The filter expression is the && of one term per dimension of the set dims,
\* and absent when dims is empty.
AndJoinOf(filter_by, dims) ==
    IF dims = {} THEN filter_by = Absent
    ELSE /\ filter_by # Absent
         /\ Get(filter_by).join = "&&"
         /\ Len(Get(filter_by).terms) = Cardinality(dims)
         /\ \A d \in dims : Len(TermsOn(filter_by, d)) = 1

\* C19: the terms of the active filter dimensions are joined with && into one
\* filter expression in which every active dimension's term appears exactly
\* once, and no filter expression is sent when no dimension is active.
C19_AndJoin ==
    (pc # "received" /\ request.op \in {"movies", "tv-series"}) =>
        AndJoinOf(sent[1].filter_by, ActiveDims)

\* The same for the requests without a bound of 0.
C19_AndJoinNonZero ==
    (/\ pc # "received"
     /\ request.op \in {"movies", "tv-series"}
     /\ \A d \in DimSet(request.op) :
            request.bounds[d].min # Some(0) /\ request.bounds[d].max # Some(0)) =>
        AndJoinOf(sent[1].filter_by, ActiveDims)

(***************************************************************************)
(* The order of the engine batch and the store lookups (Spec).              *)
(***************************************************************************)
Issued == {l \in LookupNames : lookups[l].status # "idle"}

\* C20: in an aggregate request the five sub-queries are sent as one batch,
\* their five results arrive together, no store lookup is issued before they
\* have arrived, and none is ever issued when the batch fails.
C20_BatchBeforeLookups ==
    request.op \in MultiOps =>
        /\ sent # <<>> =>
               /\ Len(sent) = 5
               /\ \A c \in Collections : Cardinality(SentTo(c)) = 1
        /\ results # <<>> => Len(results) = 5
        /\ pc \in {"received", "engine"} => Issued = {}
        /\ Issued # {} => Len(results) = 5
        /\ engineFails # {} => (Issued = {} /\ results = <<>>)

C20_Witness ==
    /\ request.op \in MultiOps
    /\ pc = "hydrating"
    /\ Len(results) = 5
    /\ Cardinality(Pending(lookups)) >= 2
    /\ \E l \in LookupNames : lookups[l].status = "ok"

(***************************************************************************)
(* The independence of the per-type hydrations (SpecBest: the lookups of a  *)
(* request return in every order).                                          *)
(***************************************************************************)
\* C21: in an aggregate request, in whatever order the store answers the
\* concurrent lookups, the data of each type in the success payload is the
\* same: the records of that type's own table for the ids of that type's own
\* sub-query result, in rank order.
C21_HydrationIndependent ==
    Replied =>
        \A t \in Types :
            LET data == response.sections[CollectionOf(t)].data
            IN  /\ \A i \in 1..Len(data) : data[i].tbl = getTableNameForType(t)
                /\ StringsOfRecords(data) =
                       SelectSeq(EngineIds(t), LAMBDA id : StoreHas(t, id))
                /\ data = hydrated[t]

C21_Witness ==
    /\ Replied
    /\ Len(response.sections["movies"].data) = 2
    /\ Len(response.sections["users"].data) = 1
    /\ Len(response.sections["playlists"].data) = 0
    /\ EngineIds("playlist") = <<Id3>>

(***************************************************************************)
(* SpecFusion: the aggregate handlers with a movie hit whose document holds *)
(* any of the three popularity fields, each absent, 0 or positive, with and *)
(* without a second candidate, followed to the engine's answer.             *)
(***************************************************************************)
FieldValues(positive) == {Absent, Some(0), Some(positive)}

InitFusion ==
    /\ request \in {PlainRequest(op, Absent) : op \in MultiOps}
    /\ \E text \in FieldValues(8), popularity \in FieldValues(100),
          followers_count \in FieldValues(50), likes_count \in FieldValues(20),
          other \in {ResultOfIds(<<>>),
                     Result(Some(<<HitOfType("user", Id2, 4, 500)>>), 1)} :
          engine = [c \in Collections |->
                       CASE c = "movies" ->
                              Result(Some(<<Hit(Doc(Id1, popularity, followers_count,
                                                    likes_count), text)>>), 1)
                         [] c = "users" -> other
                         [] OTHER -> ResultOfIds(<<>>)]
    /\ store = FullStore
    /\ engineFails = {}
    /\ storeFails = {}
    /\ InitHandler

SpecFusion == InitFusion /\ [][NextToEngine]_vars

\* The value of the first field of the document that is present, in the
\* order popularity, followers_count, likes_count, and 0 when none is.
FirstPresent(doc) ==
    IF doc.popularity # Absent THEN Get(doc.popularity)
    ELSE IF doc.followers_count # Absent THEN Get(doc.followers_count)
    ELSE IF doc.likes_count # Absent THEN Get(doc.likes_count)
    ELSE 0

RelevanceOf(hit) == IF hit.text_match = Absent THEN 0 ELSE Get(hit.text_match)

MaxFirstPresent == MaxOf({FirstPresent(RankOne(t).document) : t \in Candidates} \cup {1})
MaxRelevance == MaxOf({RelevanceOf(RankOne(t)) : t \in Candidates} \cup {1})

\* C22: the popularity that enters a rank-1 hit's hybrid score is the value
\* of the first field present on the hit in the order popularity,
\* followers_count, likes_count, and 0 when none is present; a field present
\* with the value 0 counts as present.
C22_FirstPresentField ==
    Selected =>
        \A t \in Candidates :
            Get(scored[t]).num * (10 * MaxRelevance * MaxFirstPresent) =
                Get(scored[t]).den *
                    (9 * RelevanceOf(RankOne(t)) * MaxFirstPresent
                     + FirstPresent(RankOne(t).document) * MaxRelevance)

\* The same for the hits none of whose fields is present with the value 0.
C22_FirstNonZeroFree ==
    (Selected /\ \A t \in Candidates :
                    /\ RankOne(t).document.popularity # Some(0)
                    /\ RankOne(t).document.followers_count # Some(0)
                    /\ RankOne(t).document.likes_count # Some(0)) =>
        \A t \in Candidates :
            Get(scored[t]).num * (10 * MaxRelevance * MaxFirstPresent) =
                Get(scored[t]).den *
                    (9 * RelevanceOf(RankOne(t)) * MaxFirstPresent
                     + FirstPresent(RankOne(t).document) * MaxRelevance)

\* C23: for candidates of non-negative relevance and popularity every hybrid
\* score lies in [0, 1].
C23_ScoreInUnitInterval ==
    \A t \in Types :
        scored[t] # Absent =>
            /\ Get(scored[t]).den > 0
            /\ 0 <= Get(scored[t]).num
            /\ Get(scored[t]).num <= Get(scored[t]).den

C23_Witness ==
    /\ Selected
    /\ \E t1 \in Candidates, t2 \in Candidates :
          /\ Get(scored[t1]).num = Get(scored[t1]).den
          /\ Get(scored[t2]).num = 0
          /\ TextOf(t1) = 8 /\ PopOf(t1) = 100

(***************************************************************************)
(* Hydration neither loses nor duplicates.                                  *)
(***************************************************************************)
\* The records of the lookup's table that the store finds under the key.
FoundUnder(table, key) ==
    {store[table][i] : i \in {j \in 1..Len(store[table]) :
                                  KeyMatches(table, key, store[table][j].id)}}

NoLossNoDuplicate(l) ==
    /\ \A i \in 1..Len(lookups[l].keys) :
           \A r \in FoundUnder(lookups[l].table, lookups[l].keys[i]) :
               \E k \in 1..Len(hydrated[l]) : hydrated[l][k] = r
    /\ \A j, k \in 1..Len(hydrated[l]) : hydrated[l][j] = hydrated[l][k] => j = k

\* C24: for every engine hit list, every engine-returned id that has a
\* record in the store contributes that record to data, and no store record
\* is in data more than once, in the single-collection operations (looked up
\* by the integer-parsed id, matched back by the id's string form) and in the
\* multi-collection ones.
C24_NoLossNoDuplicate ==
    \A l \in LookupNames : lookups[l].status = "ok" => NoLossNoDuplicate(l)

\* The same for the hit lists all of whose ids are the string forms of
\* numbers (1, 2, 3 and not 01).
C24_CanonicalIds ==
    (\A t \in Types : \A i \in 1..Len(ids[t]) : ids[t][i] # Id01) =>
        \A l \in LookupNames : lookups[l].status = "ok" => NoLossNoDuplicate(l)

(***************************************************************************)
(* SpecLive: the anonymous requests of Spec when every call the handler     *)
(* issues comes back: the engine call resolves or rejects, and every store  *)
(* lookup returns its data or its error.                                    *)
(***************************************************************************)
InitLive ==
    /\ request \in {PlainRequest(op, Absent) : op \in SingleOps \cup MultiOps}
    /\ engine \in [Collections -> FlowResults]
    /\ engineFails \in AtMostOne(Collections)
    /\ storeFails \in AtMostOne(Tables)
    /\ engineFails = {} \/ storeFails = {}
    /\ store = FullStore
    /\ InitHandler

SpecLive == InitLive /\ [][Next]_vars /\ WF_vars(Next)

\* C25: every request ends with exactly one outcome, the success payload or
\* the generic failure response and never both: there is no response before
\* the end, the response at the end is one of the two, and it is never
\* replaced by another; and the request does end when every engine and store
\* call it issued returns or fails.
C25_OneOutcome ==
    /\ [](pc # "done" => response = NoResponse)
    /\ [](pc = "done" =>
             /\ response.status = 200 \/ IsGenericFailure(response)
             /\ ~(response.status = 200 /\ IsGenericFailure(response)))
    /\ [][response # NoResponse => response' = response]_vars
    /\ <>(pc = "done")

\* C25's case: the request has ended with the generic failure after one of
\* its store lookups had returned its data and another its error, and a
\* third lookup is still to return.
C25_Witness ==
    /\ pc = "done"
    /\ IsGenericFailure(response)
    /\ \E l1, l2, l3 \in LookupNames :
          /\ lookups[l1].status = "ok"
          /\ lookups[l2].status = "error"
          /\ lookups[l3].status = "pending"

(***************************************************************************)
(* The two aggregate operations against each other.                         *)
(***************************************************************************)
\* The request of the other aggregate operation with searchAll's
\* results-per-type size.
OtherRequest ==
    [request EXCEPT !.op = IF request.op = "all" THEN "best-results" ELSE "all",
                    !.results_per_type = resultsPerType]

\* What the lookups lks leave hydrated once all of them have returned.
HydratedBy(lks) ==
    [l \in LookupNames |->
        IF lks[l].status = "idle" THEN <<>>
        ELSE HydratorOutput(lks[l], StoreIn(lks[l].table, lks[l].keys))]

\* The success payload of the other aggregate operation for the engine
\* results and the store of this request.
OtherResponse ==
    LET meta == MetaAfter(OtherRequest, results)
    IN  MultiResponse(OtherRequest, results, meta,
                      HydratedBy(LookupsAfter(OtherRequest, results)))

SameAsOther ==
    /\ bestResultMeta = MetaAfter(OtherRequest, results)
    /\ response.bestResult = OtherResponse.bestResult
    /\ \A c \in Collections :
           response.sections[c].pagination = OtherResponse.sections[c].pagination

\* C26: for the same engine batch results the best-results and the all
\* operation select the same best-result type and id, and for the same store
\* and a results-per-type size of 5 they return the same bestResult and the
\* same pagination for every type.
C26_SameBestResult ==
    (/\ Replied
     /\ request.op = "best-results" => request.results_per_type = resultsPerType) =>
        SameAsOther

\* The same when the store holds a record for the id of the selected
\* candidate, or no candidate is selected.
C26_SameWhenRecorded ==
    (/\ Replied
     /\ request.op = "best-results" => request.results_per_type = resultsPerType
     /\ bestResultMeta # Absent =>
            StoreHas(Get(bestResultMeta).type, Get(bestResultMeta).id)) =>
        SameAsOther

(***************************************************************************)
(* SpecClient: three requests, each of any actor (anonymous, without role,  *)
(* anon, authenticated, service_role), read their store client up to       *)
(* MaxAccesses times each, in any interleaving.                             *)
(***************************************************************************)
MaxAccesses == 2

\* request.supabaseClient
GetClient(r) ==
    /\ Len(clients.returned[r]) < MaxAccesses
    /\ IF CachedClient(clients, r) # Absent
       THEN clients' = [clients EXCEPT
                           !.returned[r] = Append(@, Get(CachedClient(clients, r)))]
       ELSE LET user == clients.user[r]
                client == IF IsService(user) THEN supabase
                          ELSE createClient("anonKey", AuthorizationOf(user, r),
                                            clients.created + 1)
            IN  clients' = [clients EXCEPT
                               !.cached[r] = Some(client),
                               !.created = IF IsService(user) THEN @ ELSE @ + 1,
                               !.returned[r] = Append(@, client)]
    /\ UNCHANGED <<request, engine, engineFails, store, storeFails, pc, sent,
                   results, ids, scored, bestResultMeta, lookups, hydrated,
                   response, log>>

NextClient == \E r \in Requests : GetClient(r)

InitClient ==
    /\ request = PlainRequest("movies", Absent)
    /\ engine = [c \in Collections |-> ResultOfIds(<<>>)]
    /\ store = FullStore
    /\ engineFails = {}
    /\ storeFails = {}
    /\ InitRequest
    /\ clients \in {NoClients(users) : users \in [Requests -> Users]}

SpecClient == InitClient /\ [][NextClient]_vars

\* C27: the client handed to a request is the shared service-key client only
\* when the request's actor role is service_role; every other request
\* (anonymous, without role, anon or any other role) gets a client of its own
\* built with the anonymous key; repeated accesses within one request return
\* the same client, and two different non-service requests never share one.
C27_ClientPerRequest ==
    \A r \in Requests :
        \A i \in 1..Len(clients.returned[r]) :
            LET client == clients.returned[r][i]
            IN  /\ client = supabase <=> RoleOf(clients.user[r]) = Some("service_role")
                /\ client # supabase => client.key = "anonKey"
                /\ client = clients.returned[r][1]
                /\ \A q \in Requests \ {r} :
                       \A j \in 1..Len(clients.returned[q]) :
                           clients.returned[q][j] = client => client = supabase

\* C27's case: an anonymous request and a request of the anon role have each
\* read their client twice, and a service_role request has read its own.
C27_Witness ==
    \E r1, r2, r3 \in Requests :
        /\ clients.user[r1] = Absent
        /\ clients.user[r2] = Some([role |-> Some("anon")])
        /\ RoleOf(clients.user[r3]) = Some("service_role")
        /\ Len(clients.returned[r1]) = 2
        /\ Len(clients.returned[r2]) = 2
        /\ Len(clients.returned[r3]) >= 1

====
